---- MODULE Spec2Model ----
(***************************************************************************)
(* Model of the speech-enhancement code of RP_Project:                     *)
(*   - adaptive_wiener            (Python/App.py, lines 81-104)            *)
(*   - AudioProcessor             (Backend/Processing.py)                  *)
(*                                                                         *)
(* Numbers.  The code computes in IEEE floating point (numpy).  A value is *)
(* modelled as a record [k, n, d]: k = "fin" is the exact rational n/d in  *)
(* lowest terms (d > 0); k = "inf", "ninf", "nan" are +Inf, -Inf and NaN.  *)
(* A finite result whose magnitude exceeds MaxFloat overflows to +-Inf, as *)
(* a float does beyond its largest finite value.  Rounding of finite       *)
(* values is not modelled.                                                 *)
(*                                                                         *)
(* Spectra.  A spectrum frame is a function from Bins to the magnitude of  *)
(* the bin; the phase of a bin is never changed by the code (every         *)
(* operation multiplies a bin by a real factor), so an enhanced bin is     *)
(* modelled by the real number factor * magnitude.  The transforms         *)
(* themselves (scipy.signal.stft/istft, librosa.stft/istft) are library    *)
(* code: the model keeps their framing arithmetic (frame count, output     *)
(* length) and leaves the spectral content of a signal nondeterministic.   *)
(***************************************************************************)
EXTENDS Integers, Sequences, FiniteSets, TLC

(***************************************************************************)
(* Bounds of the model                                                     *)
(***************************************************************************)
\* largest finite magnitude of the modelled floating-point format
MaxFloat == 1000
\* longest signal of adaptive_wiener: N_FFT + MaxHops * HOP samples
MaxHops == 2

(***************************************************************************)
(* Floating-point values                                                   *)
(***************************************************************************)
Abs(i) == IF i < 0 THEN -i ELSE i

RECURSIVE Gcd(_, _)
Gcd(a, b) == IF b = 0 THEN a ELSE Gcd(b, a % b)

PInf == [k |-> "inf", n |-> 0, d |-> 1]
NInf == [k |-> "ninf", n |-> 0, d |-> 1]
NaN == [k |-> "nan", n |-> 0, d |-> 1]

\* n/d exceeds MaxFloat (n >= 0, d > 0)
Over(n, d) ==
  (n \div d) > MaxFloat \/ ((n \div d) = MaxFloat /\ n % d # 0)

\* the rational n/d (d > 0) in lowest terms
Frac(n, d) ==
  LET g == Gcd(Abs(n), d) IN [k |-> "fin", n |-> n \div g, d |-> d \div g]

\* the float of an exact value: +-Inf beyond the largest finite magnitude
Round(a) ==
  IF a.k = "fin" /\ Over(Abs(a.n), a.d)
  THEN (IF a.n > 0 THEN PInf ELSE NInf)
  ELSE a

Rat(n, d) == Round(Frac(n, d))

Zero == Rat(0, 1)
One == Rat(1, 1)

IsFin(a) == a.k = "fin"
IsNaN(a) == a.k = "nan"

\* sign of a value that is not NaN: -1, 0, 1
Sgn(a) ==
  CASE a.k = "inf" -> 1
    [] a.k = "ninf" -> -1
    [] OTHER -> IF a.n > 0 THEN 1 ELSE IF a.n < 0 THEN -1 ELSE 0

SignedInf(s) == IF s > 0 THEN PInf ELSE NInf

FNeg(a) ==
  CASE a.k = "fin" -> [k |-> "fin", n |-> -a.n, d |-> a.d]
    [] a.k = "inf" -> NInf
    [] a.k = "ninf" -> PInf
    [] OTHER -> NaN

\* exact sum, product and quotient with the IEEE rules for Inf and NaN
QAdd(a, b) ==
  IF IsNaN(a) \/ IsNaN(b) THEN NaN
  ELSE IF IsFin(a) /\ IsFin(b) THEN
    LET g == Gcd(a.d, b.d)
    IN Frac(a.n * (b.d \div g) + b.n * (a.d \div g), (a.d \div g) * b.d)
  ELSE IF IsFin(a) THEN b
  ELSE IF IsFin(b) THEN a
  ELSE IF a.k = b.k THEN a ELSE NaN

QMul(a, b) ==
  IF IsNaN(a) \/ IsNaN(b) THEN NaN
  ELSE IF IsFin(a) /\ IsFin(b) THEN
    LET g == Gcd(Abs(a.n), b.d)
        h == Gcd(Abs(b.n), a.d)
    IN Frac((a.n \div g) * (b.n \div h), (a.d \div h) * (b.d \div g))
  ELSE IF Sgn(a) = 0 \/ Sgn(b) = 0 THEN NaN
  ELSE SignedInf(Sgn(a) * Sgn(b))

\* numpy division: x/0 is +-Inf, 0/0 is NaN (a warning, not an exception)
QDiv(a, b) ==
  IF IsNaN(a) \/ IsNaN(b) THEN NaN
  ELSE IF IsFin(a) /\ IsFin(b) THEN
    IF b.n = 0 THEN (IF a.n = 0 THEN NaN ELSE SignedInf(Sgn(a)))
    ELSE LET g == Gcd(Abs(a.n), Abs(b.n))
             h == Gcd(a.d, b.d)
         IN Frac(Sgn(b) * (a.n \div g) * (b.d \div h),
                 (a.d \div h) * (Abs(b.n) \div g))
  ELSE IF IsFin(a) THEN Zero
  ELSE IF IsFin(b) THEN SignedInf(IF Sgn(b) < 0 THEN -Sgn(a) ELSE Sgn(a))
  ELSE NaN

\* the floating-point operations
FAdd(a, b) == Round(QAdd(a, b))
FSub(a, b) == FAdd(a, FNeg(b))
FMul(a, b) == Round(QMul(a, b))
FDiv(a, b) == Round(QDiv(a, b))

\* a < b; false when either is NaN
FLt(a, b) ==
  IF IsNaN(a) \/ IsNaN(b) THEN FALSE
  ELSE IF IsFin(a) /\ IsFin(b) THEN
    LET g == Gcd(a.d, b.d) IN a.n * (b.d \div g) < b.n * (a.d \div g)
  ELSE IF a.k = b.k THEN FALSE
  ELSE a.k = "ninf" \/ b.k = "inf"

\* a <= b; false when either is NaN
FLe(a, b) == ~IsNaN(a) /\ ~IsNaN(b) /\ ~FLt(b, a)

\* numpy.maximum: propagates NaN
NpMaximum(a, b) ==
  IF IsNaN(a) \/ IsNaN(b) THEN NaN ELSE IF FLt(a, b) THEN b ELSE a

NpMinimum(a, b) ==
  IF IsNaN(a) \/ IsNaN(b) THEN NaN ELSE IF FLt(b, a) THEN b ELSE a

\* numpy.clip(a, lo, hi): minimum(maximum(a, lo), hi), NaN stays NaN
NpClip(a, lo, hi) == NpMinimum(NpMaximum(a, lo), hi)

\* Python's builtin max(a, b): b only when b > a, so max(nan, x) is nan
PyMax(a, b) == IF FLt(a, b) THEN b ELSE a


(***************************************************************************)
(* adaptive_wiener (Python/App.py)                                         *)
(***************************************************************************)
\* n_fft = 1024
N_FFT == 1024
\* hop = n_fft // 2
HOP == N_FFT \div 2
\* noisy_stft[:, :5]: the frames the noise estimate is bootstrapped from
BootFrames == 5
\* the floor 1e-10 of speech_psd is the smallest positive number of the
\* model, 1 / EpsDen
EpsDen == 1024
Eps == Rat(1, EpsDen)

Calls == {1, 2}
\* the frequency bins of a spectrum frame.  Every operation of the code on a
\* spectrum is elementwise over the bins (numpy broadcasting of arrays of
\* shape (bins, 1)), so the model keeps one representative bin.
Bins == {1}

\* bin magnitudes |X| a transform may produce; 40^2 overflows MaxFloat
MagVals == {Rat(0, 1), Rat(2, 1), Rat(40, 1)}
\* values of the parameter alpha: the function accepts any float
AlphaVals == {Rat(0, 1), Rat(1, 2), Rat(1, 1), Rat(3, 2)}
\* signal lengths: the empty signal, and signals of at least one segment
EngineLens ==
  {0} \cup ({N_FFT + q * HOP + r : q \in 0..MaxHops, r \in {0, 1}}
               \ {N_FFT + MaxHops * HOP + 1})

Min(a, b) == IF a < b THEN a ELSE b

\* scipy.signal.stft(x, nperseg=N_FFT, noverlap=HOP) with its defaults
\* boundary='zeros', padded=True: the signal is extended by N_FFT/2 zeros on
\* both sides and zero-padded to a whole number of hops.
ScipyStftFrames(L) == ((L + HOP - 1) \div HOP) + 1

\* scipy.signal.istft(Zxx, nperseg=N_FFT, noverlap=HOP): overlap-add of T
\* segments, N_FFT/2 samples trimmed at both ends
ScipyIstftLen(T) == N_FFT + (T - 1) * HOP - 2 * (N_FFT \div 2)

ZeroVec == [b \in Bins |-> Zero]

VARIABLES
  pc,            \* per call: position in adaptive_wiener
  sigLen,        \* per call: len(noisy_signal)
  alpha,         \* per call: the parameter alpha
  noisy_stft,    \* per call: sequence of spectrum frames (Bins -> magnitude)
  noise_psd,     \* per call: the local noise_psd
  H,             \* per call: the gain of the frame processed last
  enhanced_stft, \* per call: the output spectrum, one frame per input frame
  k,             \* per call: number of frames processed by the loop
  outLen,        \* per call: len(enhanced_signal), -1 before istft
  err            \* per call: the exception the call ended with, "" if none

evars == <<pc, sigLen, alpha, noisy_stft, noise_psd, H, enhanced_stft, k,
           outLen, err>>

VARIABLES
  ppc,              \* position in AudioProcessor / process_audio
  fft_size,         \* self.fft_size
  hop_length,       \* self.hop_length
  audio,            \* audio_data, as loaded
  stft_matrix,      \* sequence of spectrum frames
  signal_power,     \* level, formula 1
  noise_power,      \* level, formula 2
  snr_input,        \* level, formula 3
  noise_stft,       \* the mock noise spectrum
  wiener_stft,      \* the spectrum after formula 4
  pa_enhanced_stft, \* enhanced_stft of process_audio, after formula 5
  enhanced_len,     \* len(enhanced_audio), -1 before the inverse transform
  out_written,      \* a file written by sf.write is at output_path
  result            \* the dict returned: [success, error] or
                    \* [success, error, metrics]

pvars == <<ppc, fft_size, hop_length, audio, stft_matrix, signal_power,
           noise_power, snr_input, noise_stft, wiener_stft, pa_enhanced_stft,
           enhanced_len, out_written, result>>

VARIABLES
  audio_files,        \* table audio_files: the ids of its rows
  processing_jobs,    \* table processing_jobs: row id -> row
  processing_results, \* table processing_results: sequence of rows
  system_logs,        \* table system_logs: sequence of messages
  hpc,                \* per request: position in the handler of POST /process
  hjob,               \* per request: id of the job the handler created
  response            \* per request: the last response: [code, body] and
                      \* the fields of its JSON; body names the endpoint

bvars == <<audio_files, processing_jobs, processing_results, system_logs, hpc,
           hjob, response>>

VARIABLES
  seg_pc,        \* formula_7_segmental_snr: "idle", then "done"
  seg_fft_size,  \* self.fft_size
  seg_original,  \* original_audio, a sequence of samples
  seg_enhanced,  \* enhanced_audio, a sequence of samples
  seg_snr,       \* the value returned
  rt_pc,         \* transform pair: "idle", "forward", "inverse"
  rt_lib,        \* "scipy" (adaptive_wiener) or "librosa" (process_audio)
  rt_hop,        \* the hop of the transform pair
  rt_signal,     \* the signal transformed, a sequence of samples
  rt_frames,     \* its frames
  rt_output      \* the signal reconstructed from the frames

fvars == <<seg_pc, seg_fft_size, seg_original, seg_enhanced, seg_snr, rt_pc,
           rt_lib, rt_hop, rt_signal, rt_frames, rt_output>>

VARIABLES
  met_self,      \* self.fft_size of the AudioProcessor whose formulas are
                 \* called, 0 before it is constructed
  met_calls      \* the metric computations made on it: sequence of
                 \* [in, out], the arguments and the values returned

mvars == <<met_self, met_calls>>

VARIABLES
  users,         \* table users: row id -> session_id
  gpc,           \* per request: position in get_or_create_user
  gsid,          \* per request: session['session_id']
  guser          \* per request: the row id the query or the insert gave,
                 \* 0 for None

uvars == <<users, gpc, gsid, guser>>

vars == <<evars, pvars, bvars, fvars, mvars, uvars>>

EngineInit ==
  /\ pc = [c \in Calls |-> "idle"]
  /\ sigLen = [c \in Calls |-> 0]
  /\ alpha = [c \in Calls |-> Zero]
  /\ noisy_stft = [c \in Calls |-> <<>>]
  /\ noise_psd = [c \in Calls |-> ZeroVec]
  /\ H = [c \in Calls |-> ZeroVec]
  /\ enhanced_stft = [c \in Calls |-> <<>>]
  /\ k = [c \in Calls |-> 0]
  /\ outLen = [c \in Calls |-> -1]
  /\ err = [c \in Calls |-> ""]

\* the call whose noise_psd call c reads and writes: noise_psd is a local
\* variable of adaptive_wiener, so every call has its own
NoiseOwnerShared(c) == 1
NoiseOwner(c) == c

\* adaptive_wiener(noisy_signal, fs, alpha): entry with its arguments
Call(c, L, a) ==
  /\ pc[c] = "idle"
  /\ pc' = [pc EXCEPT ![c] = "stft"]
  /\ sigLen' = [sigLen EXCEPT ![c] = L]
  /\ alpha' = [alpha EXCEPT ![c] = a]
  /\ UNCHANGED <<noisy_stft, noise_psd, H, enhanced_stft, k, outLen, err>>
  /\ UNCHANGED <<pvars, bvars, fvars, mvars, uvars>>

\* line 85: f, t, noisy_stft = stft(...).  An empty signal gives an empty
\* one-dimensional array (no frames); otherwise frames is the spectrum.
Stft(c, frames) ==
  /\ pc[c] = "stft"
  /\ Len(frames) = (IF sigLen[c] = 0 THEN 0 ELSE ScipyStftFrames(sigLen[c]))
  /\ noisy_stft' = [noisy_stft EXCEPT ![c] = frames]
  /\ pc' = [pc EXCEPT ![c] = "bootstrap"]
  /\ UNCHANGED <<sigLen, alpha, noise_psd, H, enhanced_stft, k, outLen, err>>
  /\ UNCHANGED <<pvars, bvars, fvars, mvars, uvars>>

Sq(m) == FMul(m, m)

RECURSIVE SumPsd(_, _, _)
\* sum over frames 1..n of |X[:, j]|^2 in bin b
SumPsd(X, n, b) ==
  IF n = 0 THEN Zero ELSE FAdd(SumPsd(X, n - 1, b), Sq(X[n][b]))

\* np.mean(np.abs(noisy_stft[:, :5])**2, axis=1, keepdims=True)
BootstrapPsdAllFrames(X) ==
  [b \in Bins |-> FDiv(SumPsd(X, Len(X), b), Rat(Len(X), 1))]
BootstrapPsd(X) ==
  LET n == Min(BootFrames, Len(X))
  IN [b \in Bins |-> FDiv(SumPsd(X, n, b), Rat(n, 1))]

\* the exception an empty spectrum ends the call with: indexing the empty
\* one-dimensional array with [:, :5] raises IndexError; a transform that
\* rejects the empty input itself raises ValueError.  The code defines no
\* exception class of its own.
EmptyErrors == {"IndexError", "ValueError"}

\* lines 87-88
Bootstrap(c) ==
  /\ pc[c] = "bootstrap"
  /\ IF Len(noisy_stft[c]) = 0
     THEN /\ pc' = [pc EXCEPT ![c] = "raised"]
          /\ \E e \in EmptyErrors : err' = [err EXCEPT ![c] = e]
          /\ UNCHANGED <<noise_psd, enhanced_stft, k>>
     ELSE /\ noise_psd' =
               [noise_psd EXCEPT ![NoiseOwner(c)] = BootstrapPsd(noisy_stft[c])]
          /\ enhanced_stft' =
               [enhanced_stft EXCEPT
                  ![c] = [j \in 1..Len(noisy_stft[c]) |-> ZeroVec]]
          /\ k' = [k EXCEPT ![c] = 0]
          /\ pc' = [pc EXCEPT ![c] = "loop"]
          /\ err' = err
  /\ UNCHANGED <<sigLen, alpha, noisy_stft, H, outLen>>
  /\ UNCHANGED <<pvars, bvars, fvars, mvars, uvars>>

\* line 94: noise_psd = alpha * noise_psd + (1 - alpha) * current_psd
NoiseUpdateSwapped(a, noise, cur) ==
  FAdd(FMul(FSub(One, a), noise), FMul(a, cur))
NoiseUpdate(a, noise, cur) == FAdd(FMul(a, noise), FMul(FSub(One, a), cur))

\* line 96: speech_psd = np.maximum(current_psd - noise_psd, 1e-10)
SpeechPsd(cur, noise) == NpMaximum(FSub(cur, noise), Eps)

\* line 97: H = speech_psd / (speech_psd + noise_psd)
WienerGain(cur, noise) ==
  FDiv(SpeechPsd(cur, noise), FAdd(SpeechPsd(cur, noise), noise))

\* the noise_psd the gain of a frame is computed from: the value just
\* updated on line 94
GainNoiseStale(old, new) == old
GainNoise(old, new) == new

\* the column of noisy_stft that iteration kk (0-based) of the loop reads
FrameIndex(kk) == kk + 1

\* the column of enhanced_stft that iteration kk writes: [:, k:k+1]
OutColumnStuck(kk) == 1
OutColumn(kk) == kk + 1

\* lines 90-99: one iteration of the loop over the frames
Frame(c) ==
  /\ pc[c] = "loop"
  /\ k[c] < Len(noisy_stft[c])
  /\ LET x == noisy_stft[c][FrameIndex(k[c])]
         cur == [b \in Bins |-> Sq(x[b])]
         old == noise_psd[NoiseOwner(c)]
         new == [b \in Bins |-> NoiseUpdate(alpha[c], old[b], cur[b])]
         g == [b \in Bins |-> WienerGain(cur[b], GainNoise(old[b], new[b]))]
     IN /\ noise_psd' = [noise_psd EXCEPT ![NoiseOwner(c)] = new]
        /\ H' = [H EXCEPT ![c] = g]
        /\ enhanced_stft' =
             [enhanced_stft EXCEPT
                ![c][OutColumn(k[c])] = [b \in Bins |-> FMul(g[b], x[b])]]
  /\ k' = [k EXCEPT ![c] = k[c] + 1]
  /\ UNCHANGED <<pc, sigLen, alpha, noisy_stft, outLen, err>>
  /\ UNCHANGED <<pvars, bvars, fvars, mvars, uvars>>

\* line 101: _, enhanced_signal = istft(enhanced_stft, ...)
Istft(c) ==
  /\ pc[c] = "loop"
  /\ k[c] = Len(noisy_stft[c])
  /\ outLen' = [outLen EXCEPT ![c] = ScipyIstftLen(Len(enhanced_stft[c]))]
  /\ pc' = [pc EXCEPT ![c] = "istft"]
  /\ UNCHANGED <<sigLen, alpha, noisy_stft, noise_psd, H, enhanced_stft, k, err>>
  /\ UNCHANGED <<pvars, bvars, fvars, mvars, uvars>>

\* lines 102-104: normalisation by the peak (length unchanged) and return
Return(c) ==
  /\ pc[c] = "istft"
  /\ pc' = [pc EXCEPT ![c] = "done"]
  /\ UNCHANGED <<sigLen, alpha, noisy_stft, noise_psd, H, enhanced_stft, k,
                 outLen, err>>
  /\ UNCHANGED <<pvars, bvars, fvars, mvars, uvars>>

\* all spectra of n frames
Spectra(n, mags) == [1..n -> [Bins -> mags]]


(***************************************************************************)
(* AudioProcessor (Backend/Processing.py)                                  *)
(*                                                                         *)
(* Levels.  A level of v dB is held as the amplitude 10^(v/20) it stands   *)
(* for (a record [lin |-> amplitude]), so that 20*log10 and 10**(v/20) are *)
(* exact: a difference of levels is the quotient of the amplitudes, 0 dB   *)
(* is the amplitude 1, and levels compare as their amplitudes do.          *)
(*                                                                         *)
(* Audio.  The samples of a signal are kept as [len, rms, headRms]: the    *)
(* number of samples, the root mean square of all of them and the root     *)
(* mean square of the first 5 * fft_size of them.                          *)
(***************************************************************************)
\* longest signal of process_audio, in samples
MaxLen == 11
\* stft_matrix[:, :10]: the frames of the mock noise estimate
NoiseFrames == 10
\* formula_2_noise_power(audio_data, num_frames=5)
NumFrames == 5

\* values of the constructor arguments fft_size and hop_length: any integer
\* is accepted (the defaults 2048 and 512 scaled down)
FftSizes == {2, 4}
HopLengths == {1, 2, 3, 6}
PipeLens == 0..MaxLen
RmsVals == {Rat(0, 1), Rat(1, 4), Rat(1, 1)}
PipeMags == {Rat(0, 1), Rat(2, 1)}
\* the spectra of process_audio differ in their first VaryFrames frames;
\* every later frame repeats the last of them
VaryFrames == 3
PipeSpectra(n) ==
  {[j \in 1..n |-> [b \in Bins |-> h[IF j < VaryFrames THEN j ELSE VaryFrames]]] :
     h \in [1..VaryFrames -> PipeMags]}

Db(x) == [lin |-> x]
\* 0.0 dB
DbZero == Db(One)
\* a - b of two levels
DbSub(a, b) == Db(QDiv(a.lin, b.lin))
\* a < b of two levels
DbLt(a, b) == FLt(a.lin, b.lin)
\* 20 * np.log10(x): NaN for a negative x
Log20(x) == IF ~IsNaN(x) /\ Sgn(x) < 0 THEN Db(NaN) ELSE Db(x)
\* 10 ** (v / 20)
Pow20(v) == Round(v.lin)

NoAudio == [len |-> 0, rms |-> Zero, headRms |-> Zero]

\* np.sqrt(np.mean(x ** 2)): the mean of an empty array is NaN
Rms(x) == IF x.len = 0 THEN NaN ELSE x.rms

\* audio_data[:n]
Prefix(x, n) ==
  IF n >= x.len THEN x ELSE [len |-> n, rms |-> x.headRms, headRms |-> x.headRms]

\* formula_1_signal_power, lines 42-47
formula_1_signal_power(audio_data) == Log20(FAdd(Rms(audio_data), Eps))

\* formula_2_noise_power, lines 67-76
formula_2_noise_power(audio_data, N) ==
  LET noise_frames == Prefix(audio_data, N * NumFrames)
  IN Log20(FAdd(Rms(noise_frames), Eps))

\* formula_3_snr_calculation, lines 96-98: max(snr, 0.0) is Python's max
formula_3_unfloored(signal_power_db, noise_power_db) ==
  DbSub(signal_power_db, noise_power_db)
formula_3_snr_calculation(signal_power_db, noise_power_db) ==
  LET snr == DbSub(signal_power_db, noise_power_db)
  IN IF DbLt(snr, DbZero) THEN DbZero ELSE snr

\* formula_4_wiener_filter, lines 124-129: the gain
WienerFilterGain(noise_power_db, signal_power_db) ==
  LET signal_power_linear == Pow20(signal_power_db)
      noise_power_linear == Pow20(noise_power_db)
  IN NpClip(FDiv(signal_power_linear,
                 FAdd(FAdd(signal_power_linear, noise_power_linear), Eps)),
            Zero, One)

\* formula_4_wiener_filter, line 132: wiener_stft = audio_stft * gain
formula_4_wiener_filter(audio_stft, noise_power_db, signal_power_db) ==
  [j \in 1..Len(audio_stft) |->
     [b \in Bins |->
        FMul(audio_stft[j][b], WienerFilterGain(noise_power_db, signal_power_db))]]

FAbs(a) == IF ~IsNaN(a) /\ Sgn(a) < 0 THEN FNeg(a) ELSE a

\* formula_5_spectral_subtraction, lines 157-166, one bin
SubtractBinNoFloor(a, nz, subtraction_factor) ==
  LET audio_mag == FAbs(a)
      noise_mag == FAbs(nz)
      enhanced_mag ==
        NpMaximum(FSub(audio_mag, FMul(subtraction_factor, noise_mag)), Zero)
  IN IF ~IsNaN(a) /\ Sgn(a) < 0 THEN FNeg(enhanced_mag) ELSE enhanced_mag
SubtractBin(a, nz, subtraction_factor) ==
  LET audio_mag == FAbs(a)
      noise_mag == FAbs(nz)
      enhanced_mag ==
        NpMaximum(FSub(audio_mag, FMul(subtraction_factor, noise_mag)),
                  FMul(Rat(1, 10), audio_mag))
  IN IF ~IsNaN(a) /\ Sgn(a) < 0 THEN FNeg(enhanced_mag) ELSE enhanced_mag

\* numpy broadcasting of two spectra with n and m frames
Broadcastable(n, m) == n = m \/ n = 1 \/ m = 1

\* formula_5_spectral_subtraction: a shape mismatch raises ValueError inside
\* the try block, and the except branch returns audio_stft unchanged
formula_5_spectral_subtraction(audio_stft, noise, subtraction_factor) ==
  IF ~Broadcastable(Len(audio_stft), Len(noise)) THEN audio_stft
  ELSE [j \in 1..(IF Len(audio_stft) = 1 THEN Len(noise) ELSE Len(audio_stft)) |->
          [b \in Bins |->
             SubtractBin(audio_stft[IF Len(audio_stft) = 1 THEN 1 ELSE j][b],
                         noise[IF Len(noise) = 1 THEN 1 ELSE j][b],
                         subtraction_factor)]]

\* librosa.stft(y, n_fft, hop_length) with center=True: the signal is padded
\* by n_fft // 2 samples on both sides, one frame per hop
LibrosaStftFramesDrop(L, N, hop) == IF L < N THEN 0 ELSE ((L - N) \div hop) + 1
LibrosaStftFrames(L, N, hop) == (L \div hop) + 1

\* librosa.istft(stft_matrix, hop_length) without length=: n_fft is taken
\* from the number of rows, n_fft // 2 samples are trimmed on both sides
LibrosaIstftLen(T, hop) == hop * (T - 1)

\* round(x, 4): the nearest multiple of 1/10000, ties to even
Round4(a) ==
  IF ~IsFin(a) THEN a
  ELSE LET q == (a.n * 10000) \div a.d
           r == (a.n * 10000) - q * a.d
           up == 2 * r > a.d \/ (2 * r = a.d /\ q % 2 = 1)
       IN Rat(IF up THEN q + 1 ELSE q, 10000)

\* line 328: wiener_filter_gain = 0.8  # Mock value
wiener_filter_gain == Rat(4, 5)
\* line 332: spectral_sub_factor = 0.75
spectral_sub_factor == Rat(3, 4)

\* np.sqrt(x) is held as the x it is the root of
Sqrt(x) == [sq |-> x]

\* sum over the first n frames of the squared differences of magnitudes
RECURSIVE SumSqDiff(_, _, _)
SumSqDiff(original_stft, enhanced, n) ==
  IF n = 0 THEN Zero
  ELSE LET o == original_stft[IF Len(original_stft) = 1 THEN 1 ELSE n][1]
           e == enhanced[IF Len(enhanced) = 1 THEN 1 ELSE n][1]
           diff == FSub(FAbs(o), FAbs(e))
       IN FAdd(SumSqDiff(original_stft, enhanced, n - 1), FMul(diff, diff))

\* formula_6_spectral_distance, lines 188-198: a shape mismatch raises
\* inside the try block and the except branch returns 0.0
formula_6_spectral_distance(original_stft, enhanced) ==
  IF ~Broadcastable(Len(original_stft), Len(enhanced)) THEN Sqrt(Zero)
  ELSE LET n == IF Len(original_stft) = 1 THEN Len(enhanced)
                ELSE Len(original_stft)
       IN IF n = 0 THEN Sqrt(NaN)
          ELSE Sqrt(FDiv(SumSqDiff(original_stft, enhanced, n), Rat(n, 1)))

\* formula_8_processing_duration, line 261
formula_8_since_first_call(start_time, end_time) ==
  FAdd(FSub(end_time, start_time), Rat(Len(met_calls), 1))
formula_8_processing_duration(start_time, end_time) == FSub(end_time, start_time)

\* values of end_time - start_time
Durations == {Rat(0, 1), Rat(1, 3)}

\* np.mean of the values 10 * log10(r) is held by the sequence of the r;
\* 0.0 is the mean of the one ratio 1.
Seg(ratios) == [ratios |-> ratios]
SegZero == Seg(<<One>>)
\* segmental SNR values of the samples of a signal
PipeSegs == {SegZero, Seg(<<Rat(4, 1)>>)}

\* len(x[start:end]) of an array of L samples
SliceLen(L, start, end) ==
  IF start >= L THEN 0 ELSE (IF end > L THEN L ELSE end) - start

\* formula_7_segmental_snr, line 228: the two slices of a block cannot be
\* subtracted (ValueError) when their lengths differ and neither is 1
Formula7Raises(L, E, N) ==
  \E i \in 0..((L \div N) - 1) :
    LET lo == SliceLen(L, i * N, i * N + N)
        le == SliceLen(E, i * N, i * N + N)
    IN lo # le /\ lo # 1 /\ le # 1

(***************************************************************************)
(* formula_7_segmental_snr on signals held sample by sample                *)
(***************************************************************************)
\* longest signal given to formula_7_segmental_snr, in samples
MaxSegLen == 4
\* values of a sample
SegSamples == {Rat(0, 1), Rat(1, 1)}
\* values of fft_size
SegFftSizes == {1, 2}
\* all signals of at most MaxSegLen samples
SegSignals == UNION {[1..n -> SegSamples] : n \in 0..MaxSegLen}

\* x[start:end] of a numpy array (indices from 0)
Slice(x, start, end) ==
  SubSeq(x, start + 1, IF end > Len(x) THEN Len(x) ELSE end)

RECURSIVE SumSq(_, _)
\* sum of the squares of the first n elements of x
SumSq(x, n) ==
  IF n = 0 THEN Zero ELSE FAdd(SumSq(x, n - 1), FMul(x[n], x[n]))

\* np.mean(x ** 2): NaN for an empty array
MeanSq(x) == IF Len(x) = 0 THEN NaN ELSE FDiv(SumSq(x, Len(x)), Rat(Len(x), 1))

\* a - b of two numpy arrays: elementwise, an array of one element is
\* broadcast; other lengths raise ValueError (CannotSubtract)
CannotSubtract(a, b) == Len(a) # Len(b) /\ Len(a) # 1 /\ Len(b) # 1
Subtract(a, b) ==
  LET n == IF Len(a) = Len(b) THEN Len(a)
           ELSE IF Len(a) = 1 THEN Len(b) ELSE Len(a)
  IN [j \in 1..n |->
        FSub(a[IF Len(a) = 1 THEN 1 ELSE j], b[IF Len(b) = 1 THEN 1 ELSE j])]

\* line 217: num_frames = len(original_audio) // frame_length
NumBlocksCeil(L, frame_length) == (L + frame_length - 1) \div frame_length
NumBlocks(L, frame_length) == L \div frame_length

\* line 234: if error_power > 1e-10
KeepAlways(error_power) == TRUE
Keep(error_power) == FLt(Eps, error_power)

\* line 235: signal_power / (error_power + 1e-10), the argument of log10
FrameRatioNoEps(signal_pw, error_power) == FDiv(signal_pw, error_power)
FrameRatio(signal_pw, error_power) ==
  FDiv(signal_pw, FAdd(error_power, Eps))

\* lines 221-228: the subtraction of some block i < n raises
BlockRaises(original_audio, enhanced_audio, frame_length, n) ==
  \E i \in 0..(n - 1) :
    CannotSubtract(Slice(original_audio, i * frame_length, (i + 1) * frame_length),
                   Slice(enhanced_audio, i * frame_length, (i + 1) * frame_length))

RECURSIVE SnrValues(_, _, _, _)
\* lines 219-236: snr_values after the blocks 0 .. n - 1, as ratios
SnrValues(original_audio, enhanced_audio, frame_length, n) ==
  IF n = 0 THEN <<>>
  ELSE LET start == (n - 1) * frame_length
           end == start + frame_length
           orig_frame == Slice(original_audio, start, end)
           error_frame == Subtract(orig_frame, Slice(enhanced_audio, start, end))
           signal_pw == MeanSq(orig_frame)
           error_power == MeanSq(error_frame)
           before == SnrValues(original_audio, enhanced_audio, frame_length, n - 1)
       IN IF Keep(error_power)
          THEN Append(before, FrameRatio(signal_pw, error_power))
          ELSE before

\* formula_7_segmental_snr, lines 215-244; a ZeroDivisionError or
\* ValueError of the try block is logged and 0.0 is returned
formula_7_segmental_snr(frame_length, original_audio, enhanced_audio) ==
  IF frame_length = 0 THEN SegZero
  ELSE LET num_frames == NumBlocks(Len(original_audio), frame_length)
       IN IF BlockRaises(original_audio, enhanced_audio, frame_length, num_frames)
          THEN SegZero
          ELSE LET snr_values ==
                     SnrValues(original_audio, enhanced_audio, frame_length,
                               num_frames)
               IN IF snr_values = <<>> THEN SegZero
                  ELSE Seg(snr_values)

FormulaInit ==
  /\ seg_pc = "idle"
  /\ seg_fft_size = 0
  /\ seg_original = <<>>
  /\ seg_enhanced = <<>>
  /\ seg_snr = SegZero
  /\ rt_pc = "idle"
  /\ rt_lib = "none"
  /\ rt_hop = 0
  /\ rt_signal = <<>>
  /\ rt_frames = <<>>
  /\ rt_output = <<>>

rtvars == <<rt_pc, rt_lib, rt_hop, rt_signal, rt_frames, rt_output>>
segvars == <<seg_pc, seg_fft_size, seg_original, seg_enhanced, seg_snr>>

\* a call processor.formula_7_segmental_snr(original_audio, enhanced_audio)
\* of an AudioProcessor with the given fft_size
SegmentalSnrCall(N, original_audio, enhanced_audio) ==
  /\ seg_pc = "idle"
  /\ seg_fft_size' = N
  /\ seg_original' = original_audio
  /\ seg_enhanced' = enhanced_audio
  /\ seg_snr' = formula_7_segmental_snr(N, original_audio, enhanced_audio)
  /\ seg_pc' = "done"
  /\ UNCHANGED rtvars
  /\ UNCHANGED <<evars, pvars, bvars, mvars, uvars>>

(***************************************************************************)
(* The eight metrics computed by the formulas of one AudioProcessor        *)
(* (lines 318-320 and 360-381 of process_audio).  audio_data is held by    *)
(* its length and rms values for formulas 1-3 and by its samples for       *)
(* formula 7.                                                              *)
(***************************************************************************)
\* most metric computations on one AudioProcessor
MaxMetCalls == 2
\* the original signals: samples and what formulas 1 and 2 read of them
MetOriginals ==
  {[samples |-> <<One, One>>,
    audio_data |-> [len |-> 2, rms |-> One, headRms |-> One]],
   [samples |-> <<Zero, Zero>>,
    audio_data |-> [len |-> 2, rms |-> Zero, headRms |-> Zero]]}
MetEnhanced == {<<One, One>>, <<Zero, One>>, <<Zero, Zero>>}
\* the arguments of one computation of the metrics
MetInputs ==
  {[audio_data |-> o.audio_data,
    original_audio |-> o.samples,
    enhanced_audio |-> e,
    original_stft |-> <<[b \in Bins |-> Rat(2, 1)]>>,
    enhanced_stft |-> E,
    start_time |-> Zero,
    end_time |-> t] :
     o \in MetOriginals, e \in MetEnhanced, E \in PipeSpectra(1),
     t \in Durations}

\* the values of the metrics record, lines 318-320, 328, 332, 360-381
Metrics(N, inp) ==
  LET sp == formula_1_signal_power(inp.audio_data)
      np == formula_2_noise_power(inp.audio_data, N)
  IN [signal_power |-> sp,
      noise_power |-> np,
      snr_input |-> formula_3_snr_calculation(sp, np),
      wiener_filter_gain |-> Round4(wiener_filter_gain),
      spectral_subtraction_factor |-> Round4(spectral_sub_factor),
      spectral_distance |->
        formula_6_spectral_distance(inp.original_stft, inp.enhanced_stft),
      segmental_snr |->
        formula_7_segmental_snr(N, inp.original_audio, inp.enhanced_audio),
      processing_duration |->
        Round4(formula_8_processing_duration(inp.start_time, inp.end_time))]

MetricsInit ==
  /\ met_self = 0
  /\ met_calls = <<>>

\* AudioProcessor(fft_size=N), lines 22-26
MetricsConstruct(N) ==
  /\ met_self = 0
  /\ met_self' = N
  /\ UNCHANGED met_calls
  /\ UNCHANGED <<evars, pvars, bvars, fvars, uvars>>

\* one computation of the metrics; no formula assigns to a field of self
MetricsCall(inp) ==
  /\ met_self # 0
  /\ Len(met_calls) < MaxMetCalls
  /\ met_calls' = Append(met_calls, [in |-> inp, out |-> Metrics(met_self, inp)])
  /\ UNCHANGED met_self
  /\ UNCHANGED <<evars, pvars, bvars, fvars, uvars>>

(***************************************************************************)
(* The transform pairs on signals held sample by sample:                   *)
(* scipy.signal.stft / istft as adaptive_wiener calls them and             *)
(* librosa.stft / istft as process_audio calls them.  A spectrum frame is  *)
(* held by its inverse DFT, the windowed segment of the padded signal: the *)
(* DFT of a frame and the inverse DFT of the unchanged frame cancel.       *)
(***************************************************************************)
\* longest signal given to a transform pair, in samples
MaxRtLen == 6
\* the periodic Hann window of 4 samples (window='hann')
RtWindow == <<Rat(0, 1), Rat(1, 2), Rat(1, 1), Rat(1, 2)>>
\* nperseg / n_fft
RtN == Len(RtWindow)
\* the calls of the code: adaptive_wiener has hop = n_fft // 2,
\* AudioProcessor has hop_length = fft_size // 4 by default
Transforms ==
  {[lib |-> "scipy", hop |-> RtN \div 2],
   [lib |-> "librosa", hop |-> RtN \div 4],
   [lib |-> "librosa", hop |-> RtN \div 2]}
\* pad_mode of librosa.stft: "constant" (0.10 and later) or "reflect"
PadModes == {"constant", "reflect"}
\* signals of at least one frame
RtSignals == UNION {[1..n -> SegSamples] : n \in RtN..MaxRtLen}

\* np.pad(x, P, mode): P samples on both sides
Pad(x, P, mode) ==
  [i \in 1..(Len(x) + 2 * P) |->
     IF i <= P
     THEN IF mode = "reflect" THEN x[P - i + 2] ELSE Zero
     ELSE IF i <= P + Len(x) THEN x[i - P]
     ELSE IF mode = "reflect" THEN x[2 * Len(x) + P - i] ELSE Zero]

\* scipy.signal.stft, boundary='zeros' and padded=True: N/2 zeros on both
\* sides, then zeros at the end up to a whole number of hops
ScipyPad(x, hop) ==
  LET ext == Pad(x, RtN \div 2, "constant")
      nadd == ((hop - ((Len(ext) - RtN) % hop)) % hop)
  IN ext \o [i \in 1..nadd |-> Zero]

\* the frames of a padded signal: frame j is window * xp[j*hop : j*hop + N]
Frames(xp, hop) ==
  [j \in 1..(((Len(xp) - RtN) \div hop) + 1) |->
     [i \in 1..RtN |-> FMul(RtWindow[i], xp[(j - 1) * hop + i])]]

RECURSIVE OverlapAdd(_, _, _, _)
\* sample m of the overlap-add of the first j frames, each multiplied by
\* the window again
OverlapAdd(frames, hop, m, j) ==
  IF j = 0 THEN Zero
  ELSE LET i == m - (j - 1) * hop
           rest == OverlapAdd(frames, hop, m, j - 1)
       IN IF i \in 1..RtN THEN FAdd(rest, FMul(RtWindow[i], frames[j][i]))
          ELSE rest

RECURSIVE WindowSumSquare(_, _, _)
\* the sum of the squared window over the first j frames at sample m
WindowSumSquare(hop, m, j) ==
  IF j = 0 THEN Zero
  ELSE LET i == m - (j - 1) * hop
           rest == WindowSumSquare(hop, m, j - 1)
       IN IF i \in 1..RtN THEN FAdd(rest, FMul(RtWindow[i], RtWindow[i]))
          ELSE rest

\* istft: overlap-add, division by the window sum where it is not tiny,
\* N/2 samples trimmed at both ends; no length= argument is given
InverseTransform(frames, hop) ==
  LET T == Len(frames)
  IN [n \in 1..(hop * (T - 1)) |->
        LET m == n + RtN \div 2
            norm == WindowSumSquare(hop, m, T)
            y == OverlapAdd(frames, hop, m, T)
        IN IF FLt(Eps, norm) THEN FDiv(y, norm) ELSE y]

\* line 85 of adaptive_wiener / lines 309-314 of process_audio
Forward(t, x, mode) ==
  /\ rt_pc = "idle"
  /\ t.lib = "scipy" => mode = "constant"
  /\ rt_lib' = t.lib
  /\ rt_hop' = t.hop
  /\ rt_signal' = x
  /\ rt_frames' =
       Frames(IF t.lib = "scipy" THEN ScipyPad(x, t.hop)
              ELSE Pad(x, RtN \div 2, mode), t.hop)
  /\ rt_pc' = "forward"
  /\ UNCHANGED rt_output
  /\ UNCHANGED segvars
  /\ UNCHANGED <<evars, pvars, bvars, mvars, uvars>>

\* line 101 of adaptive_wiener / lines 341-345 of process_audio, with the
\* frames unchanged (gain 1 for every bin)
Inverse ==
  /\ rt_pc = "forward"
  /\ rt_output' = InverseTransform(rt_frames, rt_hop)
  /\ rt_pc' = "inverse"
  /\ UNCHANGED <<rt_lib, rt_hop, rt_signal, rt_frames>>
  /\ UNCHANGED segvars
  /\ UNCHANGED <<evars, pvars, bvars, mvars, uvars>>

(***************************************************************************)
(* Flask backend (Backend/App.py, Backend/Database.py)                     *)
(*                                                                         *)
(* The server handles requests in threads; the steps of a handler are      *)
(* separated at its db.session.commit() calls, where the rows it wrote     *)
(* become visible to the other requests.                                   *)
(***************************************************************************)
\* request threads
Reqs == {1, 2}
\* most rows of audio_files and of processing_jobs
MaxFiles == 1
MaxJobs == 3
\* values of file_id in a request: the ids of the rows and an unknown id
FileIds == 1..(MaxFiles + 1)

NoResponse == [code |-> 0, body |-> "none"]

BackendInit ==
  /\ audio_files = {}
  /\ processing_jobs = <<>>
  /\ processing_results = <<>>
  /\ system_logs = <<>>
  /\ hpc = [r \in Reqs |-> "idle"]
  /\ hjob = [r \in Reqs |-> 0]
  /\ response = [r \in Reqs |-> NoResponse]

\* log_event, lines 53-57
log_event(logs, log_type, message) ==
  Append(logs, [log_type |-> log_type, message |-> message])

\* POST /upload, lines 113-132: the AudioFile row is added and committed
upload_file(r) ==
  /\ hpc[r] = "idle"
  /\ Cardinality(audio_files) < MaxFiles
  /\ audio_files' = audio_files \cup {Cardinality(audio_files) + 1}
  /\ system_logs' = log_event(system_logs, "info", "File uploaded")
  /\ response' = [response EXCEPT ![r] = [code |-> 200, body |-> "uploaded"]]
  /\ UNCHANGED <<processing_jobs, processing_results, hpc, hjob>>
  /\ UNCHANGED <<evars, pvars, fvars, mvars, uvars>>

\* the row ProcessingJob(audio_file_id, status='pending', progress=0)
NewJobCompleted(file_id) ==
  [audio_file_id |-> file_id, status |-> "completed", progress |-> 0,
   completed_at |-> FALSE]
NewJob(file_id) ==
  [audio_file_id |-> file_id, status |-> "pending", progress |-> 0,
   completed_at |-> FALSE]

\* POST /process, lines 243-256: the file is looked up; a job with status
\* 'pending' is added and committed
process_create_job(r, file_id) ==
  /\ hpc[r] = "idle"
  /\ IF file_id \notin audio_files
     THEN /\ response' = [response EXCEPT
                            ![r] = [code |-> 404, body |-> "process",
                                    error |-> "File not found"]]
          /\ UNCHANGED <<processing_jobs, hpc, hjob>>
     ELSE /\ Len(processing_jobs) < MaxJobs
          /\ processing_jobs' = Append(processing_jobs, NewJob(file_id))
          /\ hjob' = [hjob EXCEPT ![r] = Len(processing_jobs) + 1]
          /\ hpc' = [hpc EXCEPT ![r] = "created"]
          /\ response' = [response EXCEPT ![r] = NoResponse]
  /\ UNCHANGED <<audio_files, processing_results, system_logs>>
  /\ UNCHANGED <<evars, pvars, fvars, mvars, uvars>>

\* lines 259-269: the mock ProcessingResult of a job
MockResult(job) ==
  [job_id |-> job,
   signal_power |-> Rat(51, 2),
   noise_power |-> Rat(26, 5),
   snr_input |-> Rat(69, 5),
   wiener_filter_gain |-> Rat(4, 5),
   spectral_subtraction_factor |-> Rat(3, 4),
   spectral_distance |-> Rat(3, 25),
   segmental_snr |-> Rat(37, 2),
   processing_duration |-> Rat(23, 10)]

\* POST /process, lines 259-275: the result is added, the job is marked
\* completed, both are committed together
process_complete(r) ==
  /\ hpc[r] = "created"
  /\ processing_results' = Append(processing_results, MockResult(hjob[r]))
  /\ processing_jobs' =
       [processing_jobs EXCEPT
          ![hjob[r]] = [@ EXCEPT !.status = "completed", !.progress = 100,
                                 !.completed_at = TRUE]]
  /\ hpc' = [hpc EXCEPT ![r] = "completed"]
  /\ UNCHANGED <<audio_files, system_logs, hjob, response>>
  /\ UNCHANGED <<evars, pvars, fvars, mvars, uvars>>

\* POST /process, lines 277-284: the event is logged and the response sent
process_respond(r) ==
  /\ hpc[r] = "completed"
  /\ system_logs' = log_event(system_logs, "info", "Processing completed")
  /\ response' =
       [response EXCEPT
          ![r] = [code |-> 200, body |-> "process", job |-> hjob[r],
                  status |-> "started", progress |-> 0]]
  /\ hpc' = [hpc EXCEPT ![r] = "idle"]
  /\ UNCHANGED <<audio_files, processing_jobs, processing_results, hjob>>
  /\ UNCHANGED <<evars, pvars, fvars, mvars, uvars>>

\* values of job_id in a request: the ids of the rows and an unknown id
JobIds == 1..(MaxJobs + 1)

\* job.processing_results: the rows of processing_results of a job
JobResults(job_id) ==
  {i \in 1..Len(processing_results) : processing_results[i].job_id = job_id}

\* ProcessingResult.to_dict, Database.py lines 125-135
to_dict(row) ==
  [signal_power |-> row.signal_power,
   noise_power |-> row.noise_power,
   snr_input |-> row.snr_input,
   wiener_filter_gain |-> row.wiener_filter_gain,
   spectral_subtraction_factor |-> row.spectral_subtraction_factor,
   spectral_distance |-> row.spectral_distance,
   segmental_snr |-> row.segmental_snr,
   processing_duration |-> row.processing_duration]

\* GET /process/<job_id>/status, lines 299-309: the response
StatusResponse(job_id) ==
  IF job_id \notin 1..Len(processing_jobs)
  THEN [code |-> 404, body |-> "status", job |-> job_id,
        error |-> "Job not found"]
  ELSE [code |-> 200, body |-> "status", job |-> job_id,
        status |-> processing_jobs[job_id].status,
        progress |-> processing_jobs[job_id].progress]

\* GET /process/<job_id>/status: reads only
check_status(r, job_id) ==
  /\ hpc[r] = "idle"
  /\ response' = [response EXCEPT ![r] = StatusResponse(job_id)]
  /\ UNCHANGED <<audio_files, processing_jobs, processing_results,
                 system_logs, hpc, hjob>>
  /\ UNCHANGED <<evars, pvars, fvars, mvars, uvars>>

\* GET /results/<job_id>, lines 325-341: the response
ResultsResponseUnchecked(job_id) ==
  IF job_id \notin 1..Len(processing_jobs) \/ JobResults(job_id) = {}
  THEN [code |-> 404, body |-> "results", job |-> job_id,
        error |-> "Results not found"]
  ELSE [code |-> 200, body |-> "results", job |-> job_id,
        status |-> processing_jobs[job_id].status,
        metrics |-> to_dict(processing_results[
                              CHOOSE i \in JobResults(job_id) : TRUE])]
ResultsResponse(job_id) ==
  IF job_id \notin 1..Len(processing_jobs)
  THEN [code |-> 404, body |-> "results", job |-> job_id,
        error |-> "Job not found"]
  ELSE IF processing_jobs[job_id].status # "completed"
  THEN [code |-> 400, body |-> "results", job |-> job_id,
        error |-> "Processing not completed"]
  ELSE IF JobResults(job_id) = {}
  THEN [code |-> 404, body |-> "results", job |-> job_id,
        error |-> "Results not found"]
  ELSE [code |-> 200, body |-> "results", job |-> job_id,
        status |-> processing_jobs[job_id].status,
        metrics |-> to_dict(processing_results[
                              CHOOSE i \in JobResults(job_id) : TRUE])]

\* GET /results/<job_id>: reads only
get_results(r, job_id) ==
  /\ hpc[r] = "idle"
  /\ response' = [response EXCEPT ![r] = ResultsResponse(job_id)]
  /\ UNCHANGED <<audio_files, processing_jobs, processing_results,
                 system_logs, hpc, hjob>>
  /\ UNCHANGED <<evars, pvars, fvars, mvars, uvars>>

(***************************************************************************)
(* get_or_create_user (Backend/App.py, lines 37-47)                        *)
(***************************************************************************)
\* values of session['session_id'] that requests carry
SessionIds == {1, 2, 3}

UsersInit ==
  /\ users = <<>>
  /\ gpc = [r \in Reqs |-> "idle"]
  /\ gsid = [r \in Reqs |-> 0]
  /\ guser = [r \in Reqs |-> 0]

\* User.query.filter_by(session_id=...).first(): a row id, 0 for None
FirstUser(session_id) ==
  IF \E i \in 1..Len(users) : users[i] = session_id
  THEN CHOOSE i \in 1..Len(users) :
         /\ users[i] = session_id
         /\ \A j \in 1..(i - 1) : users[j] # session_id
  ELSE 0

\* lines 39-43: a request of a session looks its user up
user_query(r, session_id) ==
  /\ gpc[r] = "idle"
  /\ gsid' = [gsid EXCEPT ![r] = session_id]
  /\ guser' = [guser EXCEPT ![r] = FirstUser(session_id)]
  /\ gpc' = [gpc EXCEPT ![r] = IF FirstUser(session_id) = 0 THEN "missing"
                                ELSE "returned"]
  /\ UNCHANGED users
  /\ UNCHANGED <<evars, pvars, bvars, fvars, mvars>>

\* the column session_id is unique (Database.py line 17): a commit that
\* would store a second row of a session_id raises IntegrityError
UniqueViolated(session_id) == FirstUser(session_id) # 0

\* lines 44-46: User(session_id=...) is added and committed
user_insert(r) ==
  /\ gpc[r] = "missing"
  /\ IF UniqueViolated(gsid[r])
     THEN /\ gpc' = [gpc EXCEPT ![r] = "raised"]
          /\ UNCHANGED <<users, guser>>
     ELSE /\ users' = Append(users, gsid[r])
          /\ guser' = [guser EXCEPT ![r] = Len(users) + 1]
          /\ gpc' = [gpc EXCEPT ![r] = "returned"]
  /\ UNCHANGED gsid
  /\ UNCHANGED <<evars, pvars, bvars, fvars, mvars>>

\* line 47 or the exception: the call is over and the thread takes the
\* next request
user_done(r) ==
  /\ gpc[r] \in {"returned", "raised"}
  /\ gpc' = [gpc EXCEPT ![r] = "idle"]
  /\ gsid' = [gsid EXCEPT ![r] = 0]
  /\ guser' = [guser EXCEPT ![r] = 0]
  /\ UNCHANGED users
  /\ UNCHANGED <<evars, pvars, bvars, fvars, mvars>>

NoResult == [success |-> FALSE, error |-> ""]

PipeInit ==
  /\ ppc = "new"
  /\ fft_size = 0
  /\ hop_length = 0
  /\ audio = NoAudio
  /\ stft_matrix = <<>>
  /\ signal_power = DbZero
  /\ noise_power = DbZero
  /\ snr_input = DbZero
  /\ noise_stft = <<>>
  /\ wiener_stft = <<>>
  /\ pa_enhanced_stft = <<>>
  /\ enhanced_len = -1
  /\ out_written = FALSE
  /\ result = NoResult

Init ==
  EngineInit /\ PipeInit /\ BackendInit /\ FormulaInit /\ MetricsInit /\ UsersInit

\* AudioProcessor.__init__, lines 22-26: the arguments are stored as given
Construct(N, hop) ==
  /\ ppc = "new"
  /\ fft_size' = N
  /\ hop_length' = hop
  /\ ppc' = "ready"
  /\ UNCHANGED <<audio, stft_matrix, signal_power, noise_power, snr_input,
                 noise_stft, wiener_stft, pa_enhanced_stft, enhanced_len,
                 out_written, result>>
  /\ UNCHANGED <<evars, bvars, fvars, mvars, uvars>>

\* lines 383-388: every exception of the pipeline ends in the same dict
FailPartial(e) ==
  /\ ppc' = "returned"
  /\ result' = [success |-> FALSE, error |-> e,
                metrics |-> [signal_power |-> signal_power]]
Fail(e) ==
  /\ ppc' = "returned"
  /\ result' = [success |-> FALSE, error |-> e]

\* step 1, lines 304-305: librosa.load; a file that cannot be read raises
Load(readable, x) ==
  /\ ppc = "ready"
  /\ IF readable
     THEN /\ audio' = x
          /\ ppc' = "loaded"
          /\ result' = result
     ELSE /\ Fail("load")
          /\ audio' = audio
  /\ UNCHANGED <<fft_size, hop_length, stft_matrix, signal_power, noise_power,
                 snr_input, noise_stft, wiener_stft, pa_enhanced_stft,
                 enhanced_len, out_written>>
  /\ UNCHANGED <<evars, bvars, fvars, mvars, uvars>>

\* the signals a file can hold
Audios(N) ==
  {x \in [len : PipeLens, rms : RmsVals, headRms : RmsVals] :
     /\ x.len = 0 => x.rms = Zero
     /\ x.rms = Zero => x.headRms = Zero
     /\ x.len <= N * NumFrames => x.headRms = x.rms}

\* step 2, lines 309-314: librosa.stft.  Of an empty signal, padding with
\* reflection raises ValueError (librosa before 0.10) and padding with
\* zeros gives one frame of zeros (librosa 0.10 and later).
Stft2(raises, frames) ==
  /\ ppc = "loaded"
  /\ IF audio.len = 0 /\ raises
     THEN /\ Fail("stft")
          /\ stft_matrix' = stft_matrix
     ELSE /\ Len(frames) = LibrosaStftFrames(audio.len, fft_size, hop_length)
          /\ audio.len = 0 => frames = <<ZeroVec>>
          /\ stft_matrix' = frames
          /\ ppc' = "stft"
          /\ result' = result
  /\ UNCHANGED <<fft_size, hop_length, audio, signal_power, noise_power,
                 snr_input, noise_stft, wiener_stft, pa_enhanced_stft,
                 enhanced_len, out_written>>
  /\ UNCHANGED <<evars, bvars, fvars, mvars, uvars>>

\* step 3, lines 318-323
NoiseEstimation ==
  /\ ppc = "stft"
  /\ signal_power' = formula_1_signal_power(audio)
  /\ noise_power' = formula_2_noise_power(audio, fft_size)
  /\ snr_input' = formula_3_snr_calculation(signal_power', noise_power')
  /\ noise_stft' =
       [j \in 1..Min(NoiseFrames, Len(stft_matrix)) |->
          [b \in Bins |-> FMul(stft_matrix[j][b], Rat(1, 2))]]
  /\ ppc' = "noise"
  /\ UNCHANGED <<fft_size, hop_length, audio, stft_matrix, wiener_stft,
                 pa_enhanced_stft, enhanced_len, out_written, result>>
  /\ UNCHANGED <<evars, bvars, fvars, mvars, uvars>>

\* step 4, lines 327-328
WienerFiltering ==
  /\ ppc = "noise"
  /\ wiener_stft' = formula_4_wiener_filter(stft_matrix, noise_power, signal_power)
  /\ ppc' = "wiener"
  /\ UNCHANGED <<fft_size, hop_length, audio, stft_matrix, signal_power,
                 noise_power, snr_input, noise_stft, pa_enhanced_stft,
                 enhanced_len, out_written, result>>
  /\ UNCHANGED <<evars, bvars, fvars, mvars, uvars>>

\* step 5, lines 332-337: spectral_sub_factor = 0.75
SpectralSubtraction ==
  /\ ppc = "wiener"
  /\ pa_enhanced_stft' =
       formula_5_spectral_subtraction(wiener_stft, noise_stft,
                                      spectral_sub_factor)
  /\ ppc' = "subtracted"
  /\ UNCHANGED <<fft_size, hop_length, audio, stft_matrix, signal_power,
                 noise_power, snr_input, noise_stft, wiener_stft, enhanced_len,
                 out_written, result>>
  /\ UNCHANGED <<evars, bvars, fvars, mvars, uvars>>

\* step 6, lines 341-345: librosa.istft
Istft2 ==
  /\ ppc = "subtracted"
  /\ enhanced_len' = LibrosaIstftLen(Len(pa_enhanced_stft), hop_length)
  /\ ppc' = "istft"
  /\ UNCHANGED <<fft_size, hop_length, audio, stft_matrix, signal_power,
                 noise_power, snr_input, noise_stft, wiener_stft,
                 pa_enhanced_stft, out_written, result>>
  /\ UNCHANGED <<evars, bvars, fvars, mvars, uvars>>

\* the ways os.makedirs / sf.write can end: the file is written; an error
\* is raised before the file is created (directory or file cannot be
\* opened); an error is raised after the file was created and before all
\* samples are in it (the disk is full)
WriteOutcomes == {"written", "refused", "partial"}

\* step 7, lines 351-357: the output file is written; an I/O error raises.
\* out_written: a file written by this call is present at output_path.
WriteOutput(outcome) ==
  /\ ppc = "istft"
  /\ IF outcome = "written"
     THEN /\ out_written' = TRUE
          /\ ppc' = "written"
          /\ result' = result
     ELSE /\ Fail("write")
          /\ out_written' = (outcome = "partial")
  /\ UNCHANGED <<fft_size, hop_length, audio, stft_matrix, signal_power,
                 noise_power, snr_input, noise_stft, wiener_stft,
                 pa_enhanced_stft, enhanced_len>>
  /\ UNCHANGED <<evars, bvars, fvars, mvars, uvars>>

\* step 7, lines 360-381: the metrics are computed and the dict is returned.
\* seg is the segmental SNR of the samples, which the model of the
\* pipeline does not keep, and duration is end_time - start_time.
ReturnMetrics(seg, duration) ==
  /\ ppc = "written"
  /\ Formula7Raises(audio.len, enhanced_len, fft_size) => seg = SegZero
  /\ audio.len < fft_size => seg = SegZero
  /\ ppc' = "returned"
  /\ result' =
       [success |-> TRUE,
        error |-> "",
        metrics |->
          [signal_power |-> signal_power,
           noise_power |-> noise_power,
           snr_input |-> snr_input,
           wiener_filter_gain |-> Round4(wiener_filter_gain),
           spectral_subtraction_factor |-> Round4(spectral_sub_factor),
           spectral_distance |->
             formula_6_spectral_distance(stft_matrix, pa_enhanced_stft),
           segmental_snr |-> seg,
           processing_duration |->
             Round4(formula_8_processing_duration(Zero, duration))]]
  /\ UNCHANGED <<fft_size, hop_length, audio, stft_matrix, signal_power,
                 noise_power, snr_input, noise_stft, wiener_stft,
                 pa_enhanced_stft, enhanced_len, out_written>>
  /\ UNCHANGED <<evars, bvars, fvars, mvars, uvars>>

(***************************************************************************)
(* Specification SpecPipe: AudioProcessor(...).process_audio(path)         *)
(***************************************************************************)
PipeNext ==
  \/ \E N \in FftSizes, hop \in HopLengths : Construct(N, hop)
  \/ \E x \in Audios(fft_size) : Load(TRUE, x)
  \/ Load(FALSE, NoAudio)
  \/ Stft2(TRUE, <<>>)
  \/ \E n \in 1..(MaxLen + 1) :
       \E frames \in PipeSpectra(n) : Stft2(FALSE, frames)
  \/ NoiseEstimation
  \/ WienerFiltering
  \/ SpectralSubtraction
  \/ Istft2
  \/ \E outcome \in WriteOutcomes : WriteOutput(outcome)
  \/ \E seg \in PipeSegs, duration \in Durations : ReturnMetrics(seg, duration)

SpecPipe == Init /\ [][PipeNext]_vars

(***************************************************************************)
(* Specification SpecEngine: one call of adaptive_wiener, any input        *)
(***************************************************************************)
EngineNext ==
  \/ \E L \in EngineLens, a \in AlphaVals : Call(1, L, a)
  \/ \E n \in 0..ScipyStftFrames(N_FFT + MaxHops * HOP) :
       \E frames \in Spectra(n, MagVals) : Stft(1, frames)
  \/ Bootstrap(1)
  \/ Frame(1)
  \/ Istft(1)
  \/ Return(1)

SpecEngine == Init /\ [][EngineNext]_vars


(***************************************************************************)
(* Specification SpecTwo: two calls of adaptive_wiener, interleaved        *)
(* statement by statement (two threads or processes running the function)  *)
(***************************************************************************)
TwoLens == {0, N_FFT}
TwoAlphas == {Rat(1, 2), Rat(3, 2)}
TwoMags == {Rat(0, 1), Rat(2, 1)}

TwoNext ==
  \E c \in Calls :
    \/ \E L \in TwoLens, a \in TwoAlphas : Call(c, L, a)
    \/ \E n \in {0, ScipyStftFrames(N_FFT)} :
         \E frames \in Spectra(n, TwoMags) : Stft(c, frames)
    \/ Bootstrap(c)
    \/ Frame(c)
    \/ Istft(c)
    \/ Return(c)

SpecTwo == Init /\ [][TwoNext]_vars

(***************************************************************************)
(* Specification SpecJobs: requests to the backend, handled concurrently   *)
(***************************************************************************)
JobsNext ==
  \E r \in Reqs :
    \/ upload_file(r)
    \/ \E file_id \in FileIds : process_create_job(r, file_id)
    \/ process_complete(r)
    \/ process_respond(r)

SpecJobs == Init /\ [][JobsNext]_vars

(***************************************************************************)
(* Specification SpecApi: uploads, processing requests and the lookups of  *)
(* status and results, handled concurrently                                *)
(***************************************************************************)
ApiNext ==
  \E r \in Reqs :
    \/ upload_file(r)
    \/ \E file_id \in FileIds : process_create_job(r, file_id)
    \/ process_complete(r)
    \/ process_respond(r)
    \/ \E job_id \in JobIds : check_status(r, job_id)
    \/ \E job_id \in JobIds : get_results(r, job_id)

SpecApi == Init /\ [][ApiNext]_vars

(***************************************************************************)
(* Specification SpecUsers: concurrent requests calling get_or_create_user *)
(***************************************************************************)
UsersNext ==
  \E r \in Reqs :
    \/ \E session_id \in SessionIds : user_query(r, session_id)
    \/ user_insert(r)
    \/ user_done(r)

SpecUsers == Init /\ [][UsersNext]_vars

(***************************************************************************)
(* Specification SpecBootstrap: adaptive_wiener on signals of fewer and of *)
(* more than BootFrames frames                                             *)
(***************************************************************************)
\* the shortest signal of one segment, and signals of BootFrames + 1 and
\* BootFrames + 2 frames
BootLens ==
  {N_FFT} \cup {N_FFT + (MaxHops + 1) * HOP + r : r \in {0, 1}}
BootAlphas == {Rat(1, 2), Rat(1, 1)}
BootMags == {Rat(0, 1), Rat(2, 1)}

BootstrapNext ==
  \/ \E L \in BootLens, a \in BootAlphas : Call(1, L, a)
  \/ \E n \in {ScipyStftFrames(L) : L \in BootLens} :
       \E frames \in Spectra(n, BootMags) : Stft(1, frames)
  \/ Bootstrap(1)
  \/ Frame(1)
  \/ Istft(1)
  \/ Return(1)

SpecBootstrap == Init /\ [][BootstrapNext]_vars

(***************************************************************************)
(* Specification SpecMetrics: the metrics computed again and again         *)
(***************************************************************************)
MetricsNext ==
  \/ \E N \in SegFftSizes : MetricsConstruct(N)
  \/ \E inp \in MetInputs : MetricsCall(inp)

SpecMetrics == Init /\ [][MetricsNext]_vars

(***************************************************************************)
(* Specification SpecSegmental: one call of formula_7_segmental_snr        *)
(***************************************************************************)
SegmentalNext ==
  \E N \in SegFftSizes, original_audio \in SegSignals,
     enhanced_audio \in SegSignals :
    SegmentalSnrCall(N, original_audio, enhanced_audio)

SpecSegmental == Init /\ [][SegmentalNext]_vars

(***************************************************************************)
(* Specification SpecRoundTrip: a transform pair with gain 1               *)
(***************************************************************************)
RoundTripNext ==
  \/ \E t \in Transforms, x \in RtSignals, mode \in PadModes :
       Forward(t, x, mode)
  \/ Inverse

SpecRoundTrip == Init /\ [][RoundTripNext]_vars

(***************************************************************************)
(* Reference run of the engine on one spectrum, alone                      *)
(***************************************************************************)
Started(c) == pc[c] \in {"loop", "istft", "done"}

RECURSIVE RefNoise(_, _, _)
\* noise_psd after the first j frames of spectrum X with parameter a
RefNoise(X, a, j) ==
  IF j = 0 THEN BootstrapPsd(X)
  ELSE LET prev == RefNoise(X, a, j - 1)
       IN [b \in Bins |->
             FAdd(FMul(a, prev[b]), FMul(FSub(One, a), Sq(X[j][b])))]

\* gain of frame j: from the noise estimate updated with frame j
RefGain(X, a, j) ==
  LET nz == RefNoise(X, a, j)
  IN [b \in Bins |->
        LET sp == NpMaximum(FSub(Sq(X[j][b]), nz[b]), Eps)
        IN FDiv(sp, FAdd(sp, nz[b]))]

ValidAlpha(a) == FLe(Zero, a) /\ FLt(a, One)

(***************************************************************************)
(* Claims                                                                  *)
(***************************************************************************)

\* C1: for every frame and bin the gain H applied by the Wiener step is in
\* [0, 1], for any finite input spectrum and any finite noise estimate.
C1_GainInUnitInterval ==
  \A c \in Calls :
    (Started(c) /\ k[c] > 0
       /\ \A b \in Bins : IsFin(noise_psd[c][b]))
    => \A b \in Bins : FLe(Zero, H[c][b]) /\ FLe(H[c][b], One)

\* C2: frames are processed in increasing index, noise_psd is updated exactly
\* once per frame to alpha * noise_psd + (1 - alpha) * |X_k|^2, and the gain
\* of frame k is computed from the updated noise_psd.
C2_UpdateOncePerFrame ==
  [][\A c \in Calls :
       /\ k'[c] \in {k[c], k[c] + 1}
       /\ (Started(c) /\ k'[c] = k[c]) => noise_psd'[c] = noise_psd[c]
       /\ k'[c] = k[c] + 1 =>
            \A b \in Bins :
              LET cur == Sq(noisy_stft[c][k'[c]][b])
                  sp == NpMaximum(FSub(cur, noise_psd'[c][b]), Eps)
              IN /\ noise_psd'[c][b] =
                      FAdd(FMul(alpha[c], noise_psd[c][b]),
                           FMul(FSub(One, alpha[c]), cur))
                 /\ H'[c][b] = FDiv(sp, FAdd(sp, noise_psd'[c][b]))]_evars

\* C2 witness: two frames processed, the second with a gain strictly
\* between 0 and 1 computed from an estimate that moved
C2_Witness ==
  /\ pc[1] = "loop" /\ k[1] = 2
  /\ FLt(Zero, H[1][1]) /\ FLt(H[1][1], One)
  /\ noise_psd[1] # BootstrapPsd(noisy_stft[1])

\* C3: after the bootstrap and after each per-frame update, every bin of the
\* noise estimate is non-negative and every bin of the gain is non-negative.
C3_NonNegative ==
  \A c \in Calls :
    Started(c) =>
      \A b \in Bins :
        /\ FLe(Zero, noise_psd[c][b])
        /\ k[c] > 0 => FLe(Zero, H[c][b])

\* C4: two calls, interleaved in any order, never share noise_psd: the noise
\* estimate and the output of a call are those of the call run alone on its
\* own spectrum and parameter.
C4_CallsIndependent ==
  \A c \in Calls :
    Started(c) =>
      /\ noise_psd[c] = RefNoise(noisy_stft[c], alpha[c], k[c])
      /\ \A j \in 1..k[c] :
           \A b \in Bins :
             enhanced_stft[c][j][b] =
               FMul(RefGain(noisy_stft[c], alpha[c], j)[b], noisy_stft[c][j][b])

\* C4 witness: both calls are in the middle of their loops, on different
\* inputs, with different noise estimates
C4_Witness ==
  /\ pc[1] = "loop" /\ pc[2] = "loop"
  /\ k[1] = 1 /\ k[2] = 2
  /\ noisy_stft[1] # noisy_stft[2]
  /\ noise_psd[1] # noise_psd[2]

\* C5: a call with a zero-length signal ends in the typed failure
\* EmptySignalError: never a result, never an untyped error.
C5_EmptySignalError ==
  \A c \in Calls :
    (pc[c] \in {"raised", "done"} /\ sigLen[c] = 0)
    => (pc[c] = "raised" /\ err[c] = "EmptySignalError")

\* C6: with an inconsistent configuration (here alpha outside [0, 1)) the
\* call fails with ConfigurationError before any processing step runs: no
\* frame is transformed, no noise estimate is created.
C6_ConfigurationRejected ==
  \A c \in Calls :
    (pc[c] # "idle" /\ ~ValidAlpha(alpha[c]))
    => /\ pc[c] \in {"stft", "raised"}
       /\ pc[c] = "raised" => err[c] = "ConfigurationError"
       /\ noisy_stft[c] = <<>>

\* C8: the engine emits one enhanced frame per input frame, in order: the
\* output has as many frames as the input and enhanced frame j is the gain
\* of frame j applied to input frame j.
C8_OneFramePerInput ==
  \A c \in Calls :
    Started(c) =>
      /\ Len(enhanced_stft[c]) = Len(noisy_stft[c])
      /\ \A j \in 1..Len(noisy_stft[c]) :
           \A b \in Bins :
             enhanced_stft[c][j][b] =
               IF j <= k[c]
               THEN FMul(RefGain(noisy_stft[c], alpha[c], j)[b],
                         noisy_stft[c][j][b])
               ELSE Zero

\* C8 witness: a finished call whose frames differ and whose last enhanced
\* frame is not zero
C8_Witness ==
  /\ pc[1] = "done"
  /\ Len(enhanced_stft[1]) >= 3
  /\ noisy_stft[1][1] # noisy_stft[1][2]
  /\ enhanced_stft[1][Len(enhanced_stft[1])][1] # Zero
  /\ enhanced_stft[1][1][1] # enhanced_stft[1][2][1]


\* the forward transform of process_audio has produced its frames
StftDone == stft_matrix # <<>>
\* step 3 of process_audio has run
NoiseEstimated ==
  ppc \in {"noise", "wiener", "subtracted", "istft", "written"}
    \/ (ppc = "returned" /\ result.error \in {"", "write"})

\* C7: the input SNR is max(signal_power - noise_power, 0): never negative,
\* and exactly 0.0 whenever the noise power is greater than or equal to the
\* signal power.
C7_SnrFloor ==
  NoiseEstimated =>
    /\ ~DbLt(snr_input, DbZero)
    /\ FLe(signal_power.lin, noise_power.lin) => snr_input = DbZero
    /\ DbLt(noise_power, signal_power) =>
         snr_input = Db(QDiv(signal_power.lin, noise_power.lin))

\* C7 witness: the noise power estimate exceeds the signal power and the
\* metric is 0.0
C7_Witness ==
  /\ NoiseEstimated
  /\ DbLt(signal_power, noise_power)
  /\ snr_input = DbZero

\* C9: the enhanced signal has as many samples as the input signal, for
\* every input length.
C9_OutputLength ==
  (ppc = "returned" /\ result.success) => enhanced_len = audio.len

\* C10 as stated: for a signal of length L >= N the forward transform
\* produces floor((L - N) / H) + 1 frames (trailing samples dropped).
C10_DropPolicyCount ==
  (StftDone /\ audio.len >= fft_size) =>
    Len(stft_matrix) = ((audio.len - fft_size) \div hop_length) + 1

\* C10 amended: for a signal of length L >= N the forward transform of
\* process_audio, which is centred and pads the signal by N/2 samples at
\* both ends, produces floor(L / H) + 1 frames.
C10_CentredCount ==
  (StftDone /\ audio.len >= fft_size) =>
    Len(stft_matrix) = (audio.len \div hop_length) + 1

\* C10 witness: a signal of at least one frame, not a whole number of hops,
\* transformed into more frames than the drop policy gives
C10_Witness ==
  /\ StftDone
  /\ audio.len >= fft_size
  /\ audio.len % hop_length # 0
  /\ hop_length <= fft_size
  /\ Len(stft_matrix) > ((audio.len - fft_size) \div hop_length) + 1


\* step 5 of process_audio has run
Subtracted ==
  ppc \in {"subtracted", "istft", "written"}
    \/ (ppc = "returned" /\ result.error \in {"", "write"})

\* C11: the filter gain of the metrics record is a summary of the gain the
\* call applied (one scalar gain is applied to every frame and bin, so its
\* mean is that gain), and the subtraction factor is the strength used.
C11_MetricsComputed ==
  (ppc = "returned" /\ result.success) =>
    /\ result.metrics.wiener_filter_gain =
         Round4(WienerFilterGain(noise_power, signal_power))
    /\ Len(wiener_stft) = Len(noise_stft) =>
         \A j \in 1..Len(wiener_stft) : \A b \in Bins :
           pa_enhanced_stft[j][b] =
             SubtractBin(wiener_stft[j][b], noise_stft[j][b],
                         result.metrics.spectral_subtraction_factor)

\* C12: an error raised inside a formula step reaches the caller as a
\* failure: a call in which formula 5 or formula 7 raised does not report
\* success.
C12_ErrorsReachCaller ==
  (ppc = "returned" /\ result.success) =>
    /\ Broadcastable(Len(wiener_stft), Len(noise_stft))
    /\ ~Formula7Raises(audio.len, enhanced_len, fft_size)

MetricFields ==
  {"signal_power", "noise_power", "snr_input", "wiener_filter_gain",
   "spectral_subtraction_factor", "spectral_distance", "segmental_snr",
   "processing_duration"}

\* the positions of a call of process_audio, in the order of the code
PipeSteps ==
  <<"new", "ready", "loaded", "stft", "noise", "wiener", "subtracted",
    "istft", "written", "returned">>
StepIndex(p) == CHOOSE i \in 1..Len(PipeSteps) : PipeSteps[i] = p

C15_AtomicPublish ==
  (ppc = "returned" /\ ~result.success) => ~out_written

\* values of the subtraction strength beta >= 0
Betas == {Rat(0, 1), Rat(3, 4), Rat(2, 1)}
\* values of a spectrum bin (the sign stands for the phase)
SubMags == {Rat(0, 1), Rat(1, 10), Rat(2, 1), Rat(-2, 1), Rat(40, 1)}

\* C18: spectral subtraction computes per bin
\* max(|X| - beta * noise_mag, 0.1 * |X|) with the phase of X: for beta >= 0
\* the result is between 0.1 * |X| and |X|, and is not zero when |X| > 0.
C18_SpectralSubtraction ==
  /\ (Subtracted /\ Len(wiener_stft) = Len(noise_stft)) =>
       \A j \in 1..Len(wiener_stft) : \A b \in Bins :
         LET X == wiener_stft[j][b]
             e == pa_enhanced_stft[j][b]
         IN /\ FAbs(e) =
                 NpMaximum(FSub(FAbs(X), FMul(Rat(3, 4), FAbs(noise_stft[j][b]))),
                           FMul(Rat(1, 10), FAbs(X)))
            /\ Sgn(e) = Sgn(X)
  /\ \A beta \in Betas : \A X \in SubMags : \A nz \in SubMags :
       LET e == SubtractBin(X, nz, beta)
       IN /\ FLe(FMul(Rat(1, 10), FAbs(X)), FAbs(e))
          /\ FLe(FAbs(e), FAbs(X))
          /\ Sgn(e) = Sgn(X)

\* C18 witness: a frame whose magnitude was reduced by the subtraction and
\* a frame that was held at the floor
C18_Witness ==
  /\ Subtracted
  /\ Len(wiener_stft) = Len(noise_stft)
  /\ \E j \in 1..Len(wiener_stft) :
       /\ FLt(Zero, wiener_stft[j][1])
       /\ FLt(pa_enhanced_stft[j][1], wiener_stft[j][1])
       /\ pa_enhanced_stft[j][1] = FMul(Rat(1, 10), wiener_stft[j][1])


\* C16: a gain that comes out non-finite (NaN or Inf) is replaced by 0, so
\* every gain is finite and no non-finite value reaches the enhanced
\* spectrum (stated for alpha in [0, 1) and the finite spectra of MagVals).
C16_NonFiniteClamped ==
  \A c \in Calls :
    (Started(c) /\ ValidAlpha(alpha[c])) =>
      \A b \in Bins :
        /\ k[c] > 0 => IsFin(H[c][b])
        /\ \A j \in 1..k[c] : IsFin(enhanced_stft[c][j][b])

RECURSIVE FPow(_, _)
\* a^n
FPow(a, n) == IF n = 0 THEN One ELSE FMul(a, FPow(a, n - 1))

\* the last n frames processed by call c all have power P in bin b
SameFrames(c, n, b, P) ==
  \A j \in (k[c] - n + 1)..k[c] : Sq(noisy_stft[c][j][b]) = P

\* C17: when the last n frames fed to the update have the same power P in a
\* bin, the distance |noise_psd - P| after them is alpha^n times the
\* distance before the first of them, for alpha in [0, 1) and finite values.
C17_GeometricDecay ==
  \A c \in Calls :
    (pc[c] = "loop" /\ ValidAlpha(alpha[c])) =>
      \A n \in 0..k[c] : \A b \in Bins :
        LET P == Sq(noisy_stft[c][k[c]][b])
            before == RefNoise(noisy_stft[c], alpha[c], k[c] - n)[b]
        IN (n > 0 /\ SameFrames(c, n, b, P) /\ IsFin(P) /\ IsFin(before)) =>
             /\ FAbs(FSub(noise_psd[c][b], P)) =
                  FMul(FPow(alpha[c], n), FAbs(FSub(before, P)))
             /\ FLe(FAbs(FSub(noise_psd[c][b], P)), FAbs(FSub(before, P)))

\* C17 witness: the same frame was fed twice with alpha = 1/2 and the
\* estimate, which was off by a nonzero distance, is still off
C17_Witness ==
  /\ pc[1] = "loop"
  /\ k[1] >= 3
  /\ alpha[1] = Rat(1, 2)
  /\ SameFrames(1, 2, 1, Rat(4, 1))
  /\ noisy_stft[1][k[1] - 2][1] # noisy_stft[1][k[1]][1]
  /\ noise_psd[1][1] # Rat(4, 1)
  /\ IsFin(noise_psd[1][1])

(***************************************************************************)
(* Segmental SNR written out from its definition                           *)
(***************************************************************************)
RECURSIVE SumOver(_, _)
\* the sum of f[i] over the indices i in S
SumOver(f, S) ==
  IF S = {} THEN Zero
  ELSE LET i == CHOOSE i \in S : TRUE
       IN FAdd(f[i], SumOver(f, S \ {i}))

\* block i (from 1) of N samples of x
BlockOf(x, N, i) == [idx \in 1..N |-> x[(i - 1) * N + idx]]
\* the mean of the squares of a block
BlockPower(b) ==
  FDiv(SumOver([idx \in DOMAIN b |-> FMul(b[idx], b[idx])], DOMAIN b),
       Rat(Len(b), 1))
\* the power of original - enhanced in block i
ResidualPower(N, o, e, i) ==
  BlockPower([idx \in 1..N |-> FSub(BlockOf(o, N, i)[idx], BlockOf(e, N, i)[idx])])
\* the blocks whose residual power is above 1e-10
KeptBlocks(N, o, e) ==
  {i \in 1..(Len(o) \div N) : FLt(Eps, ResidualPower(N, o, e, i))}
\* the smallest-but-(idx - 1) element of a set of numbers
Kth(S, idx) == CHOOSE i \in S : Cardinality({j \in S : j <= i}) = idx
\* the enhanced signal has the samples of every block of the original
CoversBlocks(N, o, e) == Len(e) >= N * (Len(o) \div N)

\* the mean over the kept blocks of 10 * log10(signal / residual)
MeanAsStated(N, o, e) ==
  LET K == KeptBlocks(N, o, e)
  IN IF K = {} THEN SegZero
     ELSE Seg([idx \in 1..Cardinality(K) |->
                 FDiv(BlockPower(BlockOf(o, N, Kth(K, idx))),
                      ResidualPower(N, o, e, Kth(K, idx)))])

\* the mean over the kept blocks of 10 * log10(signal / (residual + 1e-10))
MeanWithEps(N, o, e) ==
  LET K == KeptBlocks(N, o, e)
  IN IF K = {} THEN SegZero
     ELSE Seg([idx \in 1..Cardinality(K) |->
                 FDiv(BlockPower(BlockOf(o, N, Kth(K, idx))),
                      FAdd(ResidualPower(N, o, e, Kth(K, idx)), Eps))])

C19_ShortWitness ==
  /\ seg_pc = "done"
  /\ Len(seg_original) \in 1..(seg_fft_size - 1)
  /\ seg_snr = SegZero

(***************************************************************************)
(* Jobs of the backend                                                     *)
(***************************************************************************)
\* the requests whose job for a file is created and not yet completed
InFlight(file_id) ==
  {r \in Reqs : /\ hpc[r] = "created"
                /\ processing_jobs[hjob[r]].audio_file_id = file_id
                /\ processing_jobs[hjob[r]].status = "pending"}

\* C14: at most one enhancement computation is in flight per input file:
\* for any interleaving of POST /process requests for the same file_id, no
\* two jobs of that file are created and not yet completed at the same
\* time.
C14_AtMostOneInFlight ==
  \A file_id \in FileIds : Cardinality(InFlight(file_id)) <= 1

(***************************************************************************)
(* Round trip of the transforms                                            *)
(***************************************************************************)
\* C20: the forward transform followed by the inverse transform with no
\* enhancement applied reproduces the original signal sample for sample,
\* for every signal of at least one frame.
C20_RoundTrip ==
  rt_pc = "inverse" =>
    /\ Len(rt_output) >= Len(rt_signal)
    /\ \A n \in 1..Len(rt_signal) : rt_output[n] = rt_signal[n]

MeanFirstFrames(X, b) ==
  LET S == {j \in 1..Len(X) : j <= 5}
  IN FDiv(SumOver([j \in S |-> FMul(X[j][b], X[j][b])], S),
          Rat(Cardinality(S), 1))

\* C22: at the start of a call noise_psd is set per bin to the mean of
\* |X|^2 over the first 5 frames of the spectrum of that call (over all
\* frames when there are fewer), and every later change of noise_psd is the
\* adaptive update of one frame.
C22_BootstrapFromFirstFrames ==
  [][\A c \in Calls :
       /\ (pc[c] = "bootstrap" /\ pc'[c] = "loop") =>
            \A b \in Bins :
              noise_psd'[c][b] = MeanFirstFrames(noisy_stft[c], b)
       /\ (noise_psd'[c] # noise_psd[c] /\ pc[c] # "bootstrap") =>
            /\ pc[c] = "loop" /\ k'[c] = k[c] + 1
            /\ \A b \in Bins :
                 noise_psd'[c][b] =
                   FAdd(FMul(alpha[c], noise_psd[c][b]),
                        FMul(FSub(One, alpha[c]),
                             FMul(noisy_stft[c][k'[c]][b],
                                  noisy_stft[c][k'[c]][b])))]_vars

\* a call on more than 5 frames whose estimate, just bootstrapped, is not
\* the mean over all frames
C22_Witness ==
  /\ pc[1] = "loop" /\ k[1] = 0
  /\ Len(noisy_stft[1]) > 5
  /\ noise_psd[1][1] = MeanFirstFrames(noisy_stft[1], 1)
  /\ noise_psd[1][1] # FDiv(SumPsd(noisy_stft[1], Len(noisy_stft[1]), 1),
                            Rat(Len(noisy_stft[1]), 1))

\* a call on fewer than 5 frames, bootstrapped from all of them
C22_ShortWitness ==
  /\ pc[1] = "loop" /\ k[1] = 0
  /\ Len(noisy_stft[1]) < 5
  /\ noise_psd[1][1] = MeanFirstFrames(noisy_stft[1], 1)
  /\ noise_psd[1][1] # Zero

(***************************************************************************)
(* Step 5 of process_audio                                                 *)
(***************************************************************************)
\* C23: step 5 applies spectral subtraction to every frame of the
\* Wiener-filtered spectrum, for any number of frames: every frame of the
\* enhanced spectrum is the subtraction result of the Wiener-filtered frame
\* and a frame of the noise estimate.
C23_SubtractionEveryFrame ==
  Subtracted =>
    /\ Len(pa_enhanced_stft) = Len(wiener_stft)
    /\ \A j \in 1..Len(wiener_stft) : \E i \in 1..Len(noise_stft) :
         \A b \in Bins :
           pa_enhanced_stft[j][b] =
             SubtractBin(wiener_stft[j][b], noise_stft[i][b],
                         spectral_sub_factor)

(***************************************************************************)
(* Lookups of the backend                                                  *)
(***************************************************************************)
\* C24: GET /results/<job_id> answers 404 for an unknown job, 400 for a job
\* whose status is not 'completed', 404 for a completed job without
\* result, and otherwise 200 with the 8 metrics stored for the job; the
\* request changes no job, result or file record.
C24_ResultsLookup ==
  [][\A r \in Reqs :
       (response'[r] # response[r] /\ response'[r].body = "results") =>
         LET resp == response'[r]
             known == resp.job \in 1..Len(processing_jobs)
             done == known /\ processing_jobs[resp.job].status = "completed"
             stored == {row \in {processing_results[i] :
                                   i \in 1..Len(processing_results)} :
                          row.job_id = resp.job}
         IN /\ resp.code = (IF ~known THEN 404
                             ELSE IF ~done THEN 400
                             ELSE IF stored = {} THEN 404 ELSE 200)
            /\ resp.code = 200 =>
                 /\ DOMAIN resp.metrics = MetricFields
                 /\ \E row \in stored :
                      \A f \in MetricFields : resp.metrics[f] = row[f]
            /\ UNCHANGED <<audio_files, processing_jobs, processing_results>>]_vars

\* the metrics of a completed job were served while another job was
\* pending
C24_Witness ==
  \E r \in Reqs :
    /\ response[r].body = "results" /\ response[r].code = 200
    /\ response[r].metrics.segmental_snr = Rat(37, 2)
    /\ \E j \in 1..Len(processing_jobs) : processing_jobs[j].status = "pending"

\* a lookup of a pending job was refused with 400
C24_PendingWitness ==
  \E r \in Reqs : response[r].body = "results" /\ response[r].code = 400

\* C25: every stored job has a status among pending, processing, completed
\* and failed; a completed job has progress 100, a completed_at timestamp
\* and exactly one result; a job with another status has no result.
C25_JobRecords ==
  \A j \in 1..Len(processing_jobs) :
    LET job == processing_jobs[j]
        stored == {i \in 1..Len(processing_results) :
                     processing_results[i].job_id = j}
    IN /\ job.status \in {"pending", "processing", "completed", "failed"}
       /\ job.status = "completed" =>
            /\ job.progress = 100
            /\ job.completed_at
            /\ Cardinality(stored) = 1
       /\ job.status # "completed" => stored = {}

\* two completed jobs and a pending one are stored
C25_Witness ==
  /\ Len(processing_jobs) = 3
  /\ Cardinality({j \in 1..3 : processing_jobs[j].status = "completed"}) = 2
  /\ Len(processing_results) = 2

\* C26: the status and progress that POST /process returns for a job are
\* the status and progress stored for it: a status lookup of that job made
\* right after the response returns the same status and progress.
C26_ResponseIsStored ==
  [][\A r \in Reqs :
       (response'[r] # response[r] /\ response'[r].body = "process"
          /\ response'[r].code = 200) =>
         LET job == processing_jobs'[response'[r].job]
         IN /\ response'[r].status = job.status
            /\ response'[r].progress = job.progress]_vars

(***************************************************************************)
(* Noise power of short signals                                            *)
(***************************************************************************)
\* C27: for every signal of at most num_frames * fft_size samples the noise
\* power of formula 2 is computed over the whole signal and equals the
\* signal power of formula 1, and the input SNR is exactly 0.0.
C27_ShortSignalSnrZero ==
  (NoiseEstimated /\ audio.len <= NumFrames * fft_size) =>
    /\ noise_power = signal_power
    /\ snr_input = DbZero

(***************************************************************************)
(* Users                                                                   *)
(***************************************************************************)
\* C28: for any interleaving of requests with the same session_id there is
\* at most one User row of that session_id and every request obtains that
\* user rather than failing.
C28_OneUserNoFailure ==
  /\ \A session_id \in SessionIds :
       Cardinality({i \in 1..Len(users) : users[i] = session_id}) <= 1
  /\ \A r \in Reqs :
       /\ gpc[r] # "raised"
       /\ gpc[r] = "returned" =>
            guser[r] # 0 /\ users[guser[r]] = gsid[r]
====
